---- MODULE Spec2Model ----
(***************************************************************************)
(* Model of CompendiumDirectoryPF2e (src/module/apps/ui/                   *)
(* compendium-directory.ts): the compendium sidebar with a MiniSearch      *)
(* index over pack contents, the search filter that shows/hides pack rows  *)
(* and renders document matches, and the drag-start handler for matches.   *)
(*                                                                         *)
(* Text that the code inspects character by character (pack titles,        *)
(* document names, queries) is a sequence of one-character strings.        *)
(* Identifiers and image paths, which the code only compares and           *)
(* concatenates, are strings.                                              *)
(***************************************************************************)
EXTENDS Integers, Sequences, FiniteSets, TLC

VARIABLES
    game,          \* game.user.isGM and game.packs (host registry, read-only)
    phase,         \* "new" | "ready" (constructed) | "failed" (constructor threw)
    searchEngine,  \* this.searchEngine: the MiniSearch index
    packRows,      \* li.compendium-pack rows: collection -> style.display
    typeLists,     \* li.compendium-type rows: type -> children of ol.document-matches
    matchTemplate, \* whether the document holds the #compendium-search-match template
    filterOutcome, \* how the most recent _onSearchFilter ended
    query,         \* argument of the most recent _onSearchFilter call
    docMatches,    \* docMatches of the most recent _onSearchFilter call
    bodyPreviews,  \* #pack-search-drag-preview elements attached to document.body
    dragElement,   \* dataset of event.currentTarget of the most recent drag-start
    dataTransfer,  \* event.dataTransfer of the most recent drag-start event
    dragOutcome    \* how the most recent _onDragStart ended

vars == <<game, phase, searchEngine, packRows, typeLists, matchTemplate, filterOutcome,
          query, docMatches, bodyPreviews, dragElement, dataTransfer, dragOutcome>>

-----------------------------------------------------------------------------
(* Bounds *)

\* Longest query typed into the search box.
MaxQueryLen == 5

-----------------------------------------------------------------------------
(* JavaScript values *)

\* An absent value (undefined / null) of a string-valued field.
Undefined == "undefined"

\* JavaScript truthiness of a string-or-undefined value.
Truthy(s) == s # Undefined /\ s # ""

\* The characters queries are typed from.
QueryChars == {"g", "o", "G", " ", "-"}

\* The letters whose case the lowercasing changes.
UpperCase == <<"A","B","C","D","E","F","G","H","I","J","K","L","M",
               "N","O","P","Q","R","S","T","U","V","W","X","Y","Z">>

LowerCase == <<"a","b","c","d","e","f","g","h","i","j","k","l","m",
               "n","o","p","q","r","s","t","u","v","w","x","y","z">>

\* The lowercase letter of every uppercase letter.
LowerOf ==
    [c \in {UpperCase[i] : i \in 1..Len(UpperCase)} |->
        LowerCase[CHOOSE i \in 1..Len(UpperCase) : UpperCase[i] = c]]

\* String.prototype.toLocaleLowerCase, one character.
LowerChar(c) == IF c \in DOMAIN LowerOf THEN LowerOf[c] ELSE c

\* String.prototype.toLocaleLowerCase(game.i18n.lang).
ToLocaleLowerCase(s) == [i \in 1..Len(s) |-> LowerChar(s[i])]

\* String.prototype.includes: sub occurs in s as a contiguous substring.
Includes(s, sub) ==
    \E i \in 0..(Len(s) - Len(sub)) : SubSeq(s, i + 1, i + Len(sub)) = sub

\* String.prototype.startsWith.
StartsWith(s, pre) == Len(pre) <= Len(s) /\ SubSeq(s, 1, Len(pre)) = pre

\* All sequences over S of length at most n.
RECURSIVE SeqsUpTo(_, _)
SeqsUpTo(S, n) ==
    IF n = 0 THEN {<<>>}
    ELSE LET shorter == SeqsUpTo(S, n - 1)
         IN  shorter \cup {Append(s, c) : s \in {t \in shorter : Len(t) = n - 1}, c \in S}

\* All orderings of a finite set, as sequences.
RECURSIVE Orderings(_)
Orderings(S) ==
    IF S = {} THEN {<<>>}
    ELSE UNION {{<<x>> \o rest : rest \in Orderings(S \ {x})} : x \in S}

-----------------------------------------------------------------------------
(* The host registry: game.packs and game.user *)

DocumentTypes == {"Actor", "Item", "JournalEntry"}

Bestiary ==
    [collection |-> "world.bestiary",
     title |-> <<"B","o","g"," ","B","e","s","t","s">>,
     documentName |-> "Actor",
     metadata |-> [id |-> "world.bestiary", label |-> "Bog Beasts", type |-> "Actor"],
     index |-> << [_id |-> "e1", name |-> <<"G","o","b","l","i","n"," ","B","o","g","-","B","o","s","s">>,
                   img |-> "goblin.webp", type |-> "npc"],
                  [_id |-> "e2", name |-> <<"O","g","r","e"," ","G","o","o","n">>,
                   img |-> Undefined, type |-> "npc"] >>]

Gear ==
    [collection |-> "world.gear",
     title |-> <<"G","o","b","l","i","n"," ","G","o","o","d","s">>,
     documentName |-> "Item",
     metadata |-> [id |-> "world.gear", label |-> "Goblin Goods", type |-> "Item"],
     index |-> << [_id |-> "e3", name |-> <<"G","o","b","l","i","n"," ","B","o","-","S","t","a","f","f">>,
                   img |-> "staff.webp", type |-> "weapon"] >>]

Lore ==
    [collection |-> "world.lore",
     title |-> <<"G","o","b","l","i","n"," ","L","o","r","e">>,
     documentName |-> "JournalEntry",
     metadata |-> [id |-> "world.lore", label |-> "Goblin Lore", type |-> "JournalEntry"],
     index |-> << [_id |-> "e4", name |-> <<"G","o","b","l","i","n"," ","G","o","d","s">>,
                   img |-> Undefined, type |-> "base"] >>]

Boons ==
    [collection |-> "world.boons",
     title |-> <<"B","o","o","n","s">>,
     documentName |-> "Item",
     metadata |-> [id |-> "world.boons", label |-> "Boons", type |-> "Item"],
     index |-> << >>]

\* A copy of the bestiary that kept the document id e1.
BestiaryCopy ==
    [collection |-> "world.copy",
     title |-> <<"B","o","g"," ","C","o","p","y">>,
     documentName |-> "Actor",
     metadata |-> [id |-> "world.copy", label |-> "Bog Copy", type |-> "Actor"],
     index |-> << [_id |-> "e1", name |-> <<"B","o","g"," ","G","o","b","l","i","n">>,
                   img |-> Undefined, type |-> "npc"] >>]

\* The pack lists a session may start with, before privacy flags are set.
Worlds == { <<Bestiary, Gear, Lore, Boons>>,
            <<Bestiary, Gear, Lore, Boons, BestiaryCopy>> }

\* The packs whose privacy flag varies between sessions.
MaybePrivate == {"world.gear", "world.copy"}

\* game.packs.get(collection): the pack, or <<>> standing for undefined.
PacksGet(packs, collection) ==
    LET hits == {i \in 1..Len(packs) : packs[i].collection = collection}
    IN  IF hits = {} THEN <<>> ELSE <<packs[CHOOSE i \in hits : TRUE]>>

\* pack.index.get(documentId): the entry, or <<>> standing for undefined.
IndexGet(pack, documentId) ==
    LET hits == {i \in 1..Len(pack.index) : pack.index[i]._id = documentId}
    IN  IF hits = {} THEN <<>> ELSE <<pack.index[CHOOSE i \in hits : TRUE]>>

-----------------------------------------------------------------------------
(* MiniSearch, as configured by the constructor *)

\* The characters MiniSearch's default tokenizer splits on (space or punctuation).
IsSpaceOrPunctuation(c) == c \in {" ", "-"}

\* text.split(SPACE_OR_PUNCTUATION): runs of separators split the text; a leading
\* or trailing separator leaves an empty first or last piece.
RECURSIVE SplitFrom(_, _, _, _)
SplitFrom(text, i, cur, out) ==
    IF i > Len(text) THEN Append(out, cur)
    ELSE IF IsSpaceOrPunctuation(text[i])
         THEN IF i > 1 /\ IsSpaceOrPunctuation(text[i - 1])
              THEN SplitFrom(text, i + 1, cur, out)
              ELSE SplitFrom(text, i + 1, <<>>, Append(out, cur))
         ELSE SplitFrom(text, i + 1, Append(cur, text[i]), out)

Tokenize(text) == SplitFrom(text, 1, <<>>, <<>>)

\* processTerm returns null for a discarded term; a kept term is never empty.
Null == <<>>

\* processTerm: (t) => (t.length > 1 ? t.toLocaleLowerCase(game.i18n.lang) : null)
ProcessTerm(t) == IF Len(t) > 1 THEN ToLocaleLowerCase(t) ELSE Null

\* The processed terms of a text: tokenize, processTerm, drop the discarded ones.
TermsOf(text) ==
    LET tokens == Tokenize(text)
    IN  {ProcessTerm(tokens[i]) : i \in 1..Len(tokens)} \ {Null}

\* searchOptions.prefix = true: a query term matches an indexed term it begins.
TermMatches(indexed, term) == StartsWith(indexed, term)

\* CombineWith with MiniSearch's default, "OR": some query term matches.
CombineWithOr(indexedTerms, queryTerms) ==
    \E term \in queryTerms : \E indexed \in indexedTerms :
        Len(term) <= Len(indexed) /\ SubSeq(indexed, 1, Len(term)) = term

\* searchOptions.combineWith = "AND": every query term matches some indexed term.
CombineWith(indexedTerms, queryTerms) ==
    \A term \in queryTerms : \E indexed \in indexedTerms : TermMatches(indexed, term)

\* new MiniSearch({ fields: ["name"], idField: "_id", storeFields: [...] })
NewMiniSearch == [documents |-> <<>>]

\* The ids of the documents in the index.
DocumentIds(engine) == {engine.documents[i].id : i \in 1..Len(engine.documents)}

\* Add that replaces the record already stored under the id.
AddOverwriting(engine, document) ==
    [engine |-> [documents |->
        [k \in 1..Len(engine.documents) |->
            IF engine.documents[k].id = document._id
            THEN [id |-> document._id, terms |-> {}, img |-> document.img,
                  metadata |-> document.metadata, name |-> document.name,
                  type |-> document.type]
            ELSE engine.documents[k]]],
     error |-> FALSE]

\* MiniSearch.add: index the name field under idField and keep the stored
\* fields. A document whose id is already present is refused.
Add(engine, document) ==
    IF document._id \in DocumentIds(engine)
    THEN [engine |-> engine, error |-> TRUE]
    ELSE [engine |-> [documents |-> Append(engine.documents,
                        [id |-> document._id,
                         terms |-> TermsOf(document.name),
                         img |-> document.img,
                         metadata |-> document.metadata,
                         name |-> document.name,
                         type |-> document.type])],
          error |-> FALSE]

\* MiniSearch.addAll: add each document in turn; the first refusal throws.
RECURSIVE AddAll(_, _)
AddAll(engine, documents) ==
    IF documents = <<>> THEN [engine |-> engine, error |-> FALSE]
    ELSE LET r == Add(engine, Head(documents))
         IN  IF r.error THEN r ELSE AddAll(r.engine, Tail(documents))

\* A search result: the id and the stored fields of a matching document.
SearchResult(d) ==
    [id |-> d.id, img |-> d.img, metadata |-> d.metadata, name |-> d.name, type |-> d.type]

\* MiniSearch.search(query): the results the query can return. The documents
\* that match are fixed by the query; their order is by relevance score, which
\* is not modelled, so every order of the matching documents is admitted.
Search(engine, q) ==
    LET terms == TermsOf(q)
        hits  == IF terms = {} THEN {}
                 ELSE {i \in 1..Len(engine.documents) :
                          CombineWith(engine.documents[i].terms, terms)}
    IN  {[k \in 1..Len(o) |-> SearchResult(engine.documents[o[k]])] : o \in Orderings(hits)}

-----------------------------------------------------------------------------
(* #compileSearchIndex *)

\* IsIndexed without the exclusion of journal packs.
IsIndexedWithJournals(p, isGM) == Len(p.index) > 0 /\ (isGM \/ ~p.private)

\* The packs whose contents are indexed.
IsIndexed(p, isGM) ==
    Len(p.index) > 0 /\ p.documentName # "JournalEntry" /\ (isGM \/ ~p.private)

\* pack.index.map((i) => ({ ...i, metadata: pack.metadata }))
Contents(pack) ==
    [k \in 1..Len(pack.index) |->
        [_id |-> pack.index[k]._id, name |-> pack.index[k].name,
         img |-> pack.index[k].img, type |-> pack.index[k].type,
         metadata |-> pack.metadata]]

\* for (const pack of packs) this.searchEngine.addAll(contents), stopping at a throw.
RECURSIVE AddPacks(_, _)
AddPacks(engine, packs) ==
    IF packs = <<>> THEN [engine |-> engine, error |-> FALSE]
    ELSE LET r == AddAll(engine, Contents(Head(packs)))
         IN  IF r.error THEN r ELSE AddPacks(r.engine, Tail(packs))

CompileSearchIndex(engine, g) ==
    AddPacks(engine, SelectSeq(g.packs, LAMBDA p : IsIndexed(p, g.user.isGM)))

-----------------------------------------------------------------------------
(* The directory *)

NoQuery == <<"<", "n", "o", "n", "e", ">">>

Init ==
    /\ \E w \in Worlds, priv \in SUBSET MaybePrivate, gm \in BOOLEAN :
          game = [user |-> [isGM |-> gm],
                  packs |-> [k \in 1..Len(w) |->
                               [collection |-> w[k].collection, title |-> w[k].title,
                                documentName |-> w[k].documentName,
                                metadata |-> w[k].metadata, index |-> w[k].index,
                                private |-> (w[k].collection \in priv)]]]
    /\ phase = "new"
    /\ searchEngine = NewMiniSearch
    /\ packRows = [c \in {game.packs[k].collection : k \in 1..Len(game.packs)} |-> ""]
    /\ typeLists = [t \in DocumentTypes |-> <<>>]
    /\ matchTemplate \in BOOLEAN
    /\ filterOutcome = "none"
    /\ query = NoQuery
    /\ docMatches = <<>>
    /\ bodyPreviews = <<>>
    /\ dragElement = [collection |-> Undefined, documentId |-> Undefined]
    /\ dataTransfer = [dragImage |-> <<>>, data |-> <<>>]
    /\ dragOutcome = "none"

\* constructor: create the engine and compile the index; a throw from addAll
\* leaves the directory unconstructed.
Constructor ==
    /\ phase = "new"
    /\ LET r == CompileSearchIndex(NewMiniSearch, game)
       IN  /\ searchEngine' = r.engine
           /\ phase' = IF r.error THEN "failed" ELSE "ready"
    /\ UNCHANGED <<game, packRows, typeLists, matchTemplate, filterOutcome, query, docMatches,
                   bodyPreviews, dragElement, dataTransfer, dragOutcome>>

-----------------------------------------------------------------------------
(* _onSearchFilter *)

\* matchesQuery: the lowercased title contains the lowercased query.
MatchesQuery(pack, q) == Includes(ToLocaleLowerCase(pack.title), ToLocaleLowerCase(q))

\* filteredPacks, as positions in game.packs.
FilteredPacks(g, q) ==
    IF Len(q) > 0 THEN {k \in 1..Len(g.packs) : MatchesQuery(g.packs[k], q)}
    ELSE 1..Len(g.packs)

\* MayDisplay without the privacy test.
MayDisplayIgnoringPrivacy(g, rows, pack) == pack.collection \in DOMAIN rows

\* The first loop's guard: the pack has a row and is not private to this user.
MayDisplay(g, rows, pack) ==
    ~(pack.collection \notin DOMAIN rows \/ (pack.private /\ ~g.user.isGM))

\* The rows the first loop sets to "list-item".
RowsToShow(g, rows, q) ==
    {g.packs[k].collection : k \in {j \in FilteredPacks(g, q) : MayDisplay(g, rows, g.packs[j])}}

\* RowsToHide that hides nothing.
RowsToHideNone(g, rows, q) == {}

\* rowsToHide: with a non-empty query, the rows whose pack is not in filteredPacks.
RowsToHide(g, rows, q) ==
    IF Len(q) > 0
    THEN {c \in DOMAIN rows : \A k \in FilteredPacks(g, q) : g.packs[k].collection # c}
    ELSE {}

\* The display of every pack row after both loops.
ApplyVisibility(g, rows, q) ==
    LET show == RowsToShow(g, rows, q)
        hide == RowsToHide(g, rows, q)
    IN  [c \in DOMAIN rows |->
            IF c \in hide THEN "none"
            ELSE IF c \in show THEN "list-item"
            ELSE rows[c]]

\* matchUUID: `Compendium.${match.metadata.id}.${match.id}`
MatchUUID(match) == "Compendium." \o match.metadata.id \o "." \o match.id

\* The localisation key of the document's system type, or Undefined (null).
SystemType(match) ==
    IF match.metadata.type = "Actor" THEN "ACTOR.Type:" \o match.type
    ELSE IF match.metadata.type = "Item" THEN "ITEM.Type:" \o match.type
    ELSE Undefined

\* One li cloned from the match template and filled in for a match (the
\* score attribute and the click listener are left out).
ListElement(match) ==
    [uuid |-> MatchUUID(match),
     src |-> IF match.img # Undefined THEN match.img ELSE "",
     anchor |-> match.name,
     details |-> [systemType |-> SystemType(match), label |-> match.metadata.label]]

\* TypedMatches comparing the document's own type instead of its pack's.
TypedMatchesByOwnType(matches, type) == SelectSeq(matches, LAMBDA m : m.type = type)

\* typedMatches: docMatches.filter((m) => m.metadata.type === dataset.type)
TypedMatches(matches, type) == SelectSeq(matches, LAMBDA m : m.metadata.type = type)

\* listElements of one li.compendium-type row.
ListElements(matches, type) ==
    LET typed == TypedMatches(matches, type)
    IN  [k \in 1..Len(typed) |-> ListElement(typed[k])]

\* RenderMatches appending to the lists instead of replacing their children.
RenderMatchesAppending(lists, matches) ==
    [t \in DOMAIN lists |-> lists[t] \o ListElements(matches, t)]

\* The children of every ol.document-matches after the for loop: the list
\* elements of the row's type replace whatever was rendered before.
RenderMatches(lists, matches) ==
    [t \in DOMAIN lists |-> ListElements(matches, t)]

\* docMatches: the search results, or none for the empty query.
DocMatches(engine, q) == IF Len(q) > 0 THEN Search(engine, q) ELSE {<<>>}

\* The pack rows are rewritten first. Then the handler returns when there is
\* no document match, throws "Match template not found" when the template is
\* missing, and renders the matches otherwise; the first two leave every
\* document-match list as it was.
OnSearchFilter(q) ==
    /\ phase = "ready"
    /\ query' = q
    /\ packRows' = ApplyVisibility(game, packRows, q)
    /\ \E matches \in DocMatches(searchEngine, q) :
          /\ docMatches' = matches
          /\ IF Len(matches) = 0
             THEN /\ filterOutcome' = "returned"
                  /\ UNCHANGED typeLists
             ELSE IF ~matchTemplate
                  THEN /\ filterOutcome' = "threw"
                       /\ UNCHANGED typeLists
                  ELSE /\ filterOutcome' = "rendered"
                       /\ typeLists' = RenderMatches(typeLists, matches)
    /\ UNCHANGED <<game, phase, searchEngine, matchTemplate, bodyPreviews, dragElement,
                   dataTransfer, dragOutcome>>

-----------------------------------------------------------------------------
(* _onDragStart *)

\* The dataTransfer of a drag event before its handler runs.
EmptyTransfer == [dragImage |-> <<>>, data |-> <<>>]

\* #dragPreview, cloned and filled in: the title is the entry's name, the
\* image source is set only when the entry has an image.
DragPreview(indexEntry) ==
    [id |-> "pack-search-drag-preview",
     src |-> IF Truthy(indexEntry.img) THEN indexEntry.img ELSE "",
     title |-> indexEntry.name]

\* RemoveOldPreview that removes nothing.
KeepOldPreview(body) == body

\* document.querySelector("#pack-search-drag-preview")?.remove()
RemoveOldPreview(body) == IF body = <<>> THEN body ELSE Tail(body)

\* DragData without the "Compendium." prefix.
DragDataNoPrefix(pack, documentId) ==
    [type |-> pack.documentName, uuid |-> pack.collection \o "." \o documentId]

\* The payload set on the event's dataTransfer.
DragData(pack, documentId) ==
    [type |-> pack.documentName,
     uuid |-> "Compendium." \o pack.collection \o "." \o documentId]

\* The dataset values a dragged element may carry.
DatasetCollections == {Undefined, "", "world.bestiary", "world.gear", "world.gone"}

DatasetDocumentIds == {Undefined, "e1", "e2", "e3", "e9"}

OnDragStart(collection, documentId) ==
    /\ phase = "ready"
    /\ dragElement' = [collection |-> collection, documentId |-> documentId]
    /\ IF ~(Truthy(collection) /\ Truthy(documentId))
       THEN \* early return
            /\ dragOutcome' = "returned"
            /\ dataTransfer' = EmptyTransfer
            /\ UNCHANGED bodyPreviews
       ELSE LET pack == PacksGet(game.packs, collection)
                indexEntry == IF pack = <<>> THEN <<>> ELSE IndexGet(pack[1], documentId)
            IN  IF pack = <<>> \/ indexEntry = <<>>
                THEN \* a strict lookup threw
                     /\ dragOutcome' = "threw"
                     /\ dataTransfer' = EmptyTransfer
                     /\ UNCHANGED bodyPreviews
                ELSE LET dragPreview == DragPreview(indexEntry[1])
                     IN  /\ bodyPreviews' = Append(RemoveOldPreview(bodyPreviews), dragPreview)
                         /\ dataTransfer' = [dragImage |-> <<dragPreview>>,
                                             data |-> <<DragData(pack[1], documentId)>>]
                         /\ dragOutcome' = "set"
    /\ UNCHANGED <<game, phase, searchEngine, packRows, typeLists, matchTemplate,
                   filterOutcome, query, docMatches>>

-----------------------------------------------------------------------------
(* Specifications *)

\* The queries typed during a session of the directory.
TypedQueries ==
    { <<>>,
      <<"g","o","b">>,
      <<"B","o">>,
      <<"o","g">>,
      <<"g">>,
      <<"g","o">>,
      <<"b","o","g","-","b","o">>,
      <<"z","z">> }

\* Every query of at most MaxQueryLen characters.
Queries == SeqsUpTo(QueryChars, MaxQueryLen)

\* The first search-filter call of a session, with any bounded query.
FirstSearchFilter == query = NoQuery /\ \E q \in Queries : OnSearchFilter(q)

Next ==
    \/ Constructor
    \/ \E q \in TypedQueries : OnSearchFilter(q)
    \/ \E c \in DatasetCollections, d \in DatasetDocumentIds : OnDragStart(c, d)

\* A session: construction, then any sequence of queries and drags.
Spec == Init /\ [][Next]_vars

NextSearch ==
    \/ Constructor
    \/ FirstSearchFilter

\* The sessions of a viewer who is not GM over the four packs without the
\* copy, the match template present: the private pack is either indexed or not.
InitSearch == Init /\ ~game.user.isGM /\ Len(game.packs) = 4 /\ matchTemplate

\* Construction followed by one search-filter call with any bounded query.
SpecSearch == InitSearch /\ [][NextSearch]_vars

-----------------------------------------------------------------------------
(* Properties *)

\* The packs of the registry, and those the viewer may see.
GamePacks == {game.packs[k] : k \in 1..Len(game.packs)}

Permitted(pack) == game.user.isGM \/ ~pack.private

\* The elements of a sequence.
Range(seq) == {seq[k] : k \in 1..Len(seq)}

\* The words of a text: its maximal runs of characters outside seps.
WordsOf(text, seps) ==
    LET starts == {i \in 1..Len(text) :
                      text[i] \notin seps /\ (i = 1 \/ text[i - 1] \in seps)}
        ends   == {j \in 1..Len(text) :
                      text[j] \notin seps /\ (j = Len(text) \/ text[j + 1] \in seps)}
    IN  {SubSeq(text, i, CHOOSE j \in ends : j >= i /\ \A e \in ends : e >= i => j <= e) :
            i \in starts}

\* The uuid of a document of a pack.
UuidOf(pack, id) == "Compendium." \o pack.collection \o "." \o id

\* The uuids rendered in the document-match lists.
RenderedUuids == UNION {{li.uuid : li \in Range(typeLists[t])} : t \in DOMAIN typeLists}

\* C1: for a viewer who is not GM, the search filter never sets the row of a
\* private pack to shown, and no document of a private pack is in any
\* rendered match list.
C1_PrivatePackNeverShown ==
    ~game.user.isGM =>
        \A pack \in GamePacks :
            pack.private =>
                /\ packRows[pack.collection] # "list-item"
                /\ \A k \in 1..Len(pack.index) :
                      UuidOf(pack, pack.index[k]._id) \notin RenderedUuids

\* A viewer who is not GM has typed "gob", which is contained in the title of
\* the private pack Goblin Goods and begins the name of its document, and
\* matches of other packs are rendered.
C1_Witness ==
    /\ ~game.user.isGM
    /\ query = <<"g","o","b">>
    /\ \E pack \in GamePacks : pack.collection = "world.gear" /\ pack.private
    /\ typeLists["Actor"] # <<>>

\* C2: after a search-filter call with query Q, the row of every permitted
\* pack is shown iff Q is empty or the lowercased title contains the
\* lowercased Q, and is hidden otherwise.
C2_RowShownIffTitleContains ==
    query # NoQuery =>
        \A pack \in GamePacks :
            Permitted(pack) =>
                LET contains == query = <<>> \/ Includes(ToLocaleLowerCase(pack.title),
                                                         ToLocaleLowerCase(query))
                IN  /\ contains => packRows[pack.collection] = "list-item"
                    /\ ~contains => packRows[pack.collection] = "none"

\* "Bo" was typed: Bog Beasts is shown by its lowercased title, Goblin Goods
\* is permitted and hidden.
C2_Witness ==
    /\ query = <<"B","o">>
    /\ packRows["world.bestiary"] = "list-item"
    /\ packRows["world.gear"] = "none"
    /\ \E pack \in GamePacks : pack.collection = "world.gear" /\ Permitted(pack)

\* The permitted packs that own at least one of the returned matches.
PacksWithMatch ==
    {pack \in GamePacks :
        Permitted(pack) /\ \E m \in Range(docMatches) : m.metadata.id = pack.collection}

\* C3 as stated: after a call with a non-empty query, a permitted pack with at
\* least one document match has its row shown.
C3_PackWithMatchShown ==
    (query # NoQuery /\ Len(query) > 0) =>
        \A pack \in PacksWithMatch : packRows[pack.collection] = "list-item"

\* C3 amended: after a call with a non-empty query, every document match of a
\* permitted pack is rendered in the match list of the pack's type when the
\* match template is present, whether or not the title contains the query;
\* the pack's own row is hidden when the title does not contain the query.
C3_MatchRenderedRowByTitle ==
    (query # NoQuery /\ Len(query) > 0) =>
        \A pack \in PacksWithMatch :
            /\ matchTemplate =>
                  \A m \in Range(docMatches) :
                      m.metadata.id = pack.collection =>
                          \E li \in Range(typeLists[pack.documentName]) :
                              li.uuid = UuidOf(pack, m.id) /\ li.anchor = m.name
            /\ ~Includes(ToLocaleLowerCase(pack.title), ToLocaleLowerCase(query)) =>
                  packRows[pack.collection] = "none"

\* "gob" was typed: Goblin Bog-Boss of Bog Beasts is rendered in the Actor
\* list while the row of Bog Beasts is hidden.
C3_Witness ==
    /\ query = <<"g","o","b">>
    /\ filterOutcome = "rendered"
    /\ \E li \in Range(typeLists["Actor"]) : li.uuid = "Compendium.world.bestiary.e1"
    /\ packRows["world.bestiary"] = "none"

\* C4: after a search-filter call with the empty query, every type row's
\* match list is empty.
C4_EmptyQueryClearsMatches ==
    query = <<>> => \A t \in DOMAIN typeLists : typeLists[t] = <<>>

\* C5 as stated: for a non-empty query, every whitespace-separated term of
\* the query, whatever its length, is lowercased a prefix of some lowercased
\* token of every returned match's name.
C5_EveryTermIsPrefix ==
    (query # NoQuery /\ Len(query) > 0) =>
        \A m \in Range(docMatches) :
            \A term \in WordsOf(query, {" "}) :
                \E token \in WordsOf(m.name, {" "}) \cup WordsOf(m.name, {" ", "-"}) :
                    StartsWith(ToLocaleLowerCase(token), ToLocaleLowerCase(term))

\* C5 amended: for a non-empty query, every term of the query of at least two
\* characters, the terms being split at whitespace and punctuation, is
\* lowercased a prefix of some lowercased token of every returned match's
\* name; terms of one character are ignored.
C5_EveryKeptTermIsPrefix ==
    (query # NoQuery /\ Len(query) > 0) =>
        LET terms == {ToLocaleLowerCase(term) :
                         term \in {w \in WordsOf(query, {" ", "-"}) : Len(w) >= 2}}
        IN  \A m \in Range(docMatches) :
                LET tokens == {ToLocaleLowerCase(token) : token \in WordsOf(m.name, {" ", "-"})}
                IN  \A term \in terms : \E token \in tokens : StartsWith(token, term)

\* "Go og" returned Ogre Goon: both terms are kept and each begins a token.
C5_Witness ==
    /\ query = <<"G","o"," ","o","g">>
    /\ Len(docMatches) > 0

\* The entries of the packs the claim calls eligible, in registry order, each
\* with its pack.
EligibleEntries ==
    UNION {{<<pack, pack.index[k]>> : k \in 1..Len(pack.index)} : pack \in
              {p \in GamePacks : /\ Len(p.index) > 0
                                 /\ p.documentName # "JournalEntry"
                                 /\ (~p.private \/ game.user.isGM)}}

\* Two eligible entries of different packs share an identifier.
HasCollision ==
    \E x \in EligibleEntries, y \in EligibleEntries : x # y /\ x[2]._id = y[2]._id

\* The position in game.packs of the pack with this collection id.
PackPosition(collection) ==
    CHOOSE k \in 1..Len(game.packs) : game.packs[k].collection = collection

\* C6: when construction meets an entry whose identifier is already in the
\* index, the build fails, and every stored record is still the first entry
\* added under its identifier.
C6_DuplicateIdFailsBuild ==
    (phase # "new" /\ HasCollision) =>
        /\ phase = "failed"
        /\ \A d \in Range(searchEngine.documents) :
              \E x \in EligibleEntries :
                  /\ x[2]._id = d.id /\ x[2].name = d.name /\ x[1].metadata = d.metadata
                  /\ \A y \in EligibleEntries :
                        y[2]._id = d.id =>
                            PackPosition(x[1].collection) <= PackPosition(y[1].collection)

\* The copy of the bestiary was eligible: the build failed and e1 is still
\* the bestiary's Goblin Bog-Boss.
C6_Witness ==
    /\ phase = "failed"
    /\ \E d \in Range(searchEngine.documents) :
          d.id = "e1" /\ d.metadata.id = "world.bestiary"

\* C7: after construction with distinct identifiers, the index holds one
\* record for exactly every entry of every eligible pack, each carrying its
\* pack's metadata (id, label, type) apart from the entry's own type.
C7_IndexHoldsEligibleEntries ==
    phase = "ready" =>
        /\ Len(searchEngine.documents) = Cardinality(EligibleEntries)
        /\ {[id |-> d.id, name |-> d.name, img |-> d.img, type |-> d.type,
             metadata |-> d.metadata] : d \in Range(searchEngine.documents)}
           = {[id |-> x[2]._id, name |-> x[2].name, img |-> x[2].img, type |-> x[2].type,
               metadata |-> [id |-> x[1].metadata.id, label |-> x[1].metadata.label,
                             type |-> x[1].metadata.type]] : x \in EligibleEntries}

\* A GM's index holds the private pack's entry beside the bestiary's two,
\* and nothing of the journal pack or the empty pack.
C7_Witness ==
    /\ phase = "ready"
    /\ game.user.isGM
    /\ \E pack \in GamePacks : pack.collection = "world.gear" /\ pack.private
    /\ Len(searchEngine.documents) = 3

\* The pack and the entry the dragged element names, when both resolve.
DraggedPack == PacksGet(game.packs, dragElement.collection)[1]

DraggedEntry == IndexGet(DraggedPack, dragElement.documentId)[1]

\* C8: a drag-start that names a resolvable pack and document sets the
\* payload to the pack's document type and the uuid
\* "Compendium.<collection>.<document id>", the uuid the search filter writes
\* on the rendered match row of that document.
C8_DragPayload ==
    dragOutcome = "set" =>
        /\ dataTransfer.data =
              <<[type |-> DraggedPack.documentName,
                 uuid |-> "Compendium." \o dragElement.collection \o "."
                              \o dragElement.documentId]>>
        /\ \A t \in DOMAIN typeLists : \A li \in Range(typeLists[t]) :
              (li.details.label = DraggedPack.metadata.label /\ li.anchor = DraggedEntry.name)
                  => li.uuid = dataTransfer.data[1].uuid

\* e1 of world.bestiary was dragged while its match row is rendered: the
\* payload is Actor, Compendium.world.bestiary.e1.
C8_Witness ==
    /\ dragOutcome = "set"
    /\ dragElement = [collection |-> "world.bestiary", documentId |-> "e1"]
    /\ dataTransfer.data = <<[type |-> "Actor", uuid |-> "Compendium.world.bestiary.e1"]>>
    /\ \E li \in Range(typeLists["Actor"]) : li.uuid = "Compendium.world.bestiary.e1"

\* What C9 says of the lists: every type row's list is exactly the returned
\* matches of that type, in the returned order, and each returned match is in
\* at most one list.
ListsShowDocMatches ==
    /\ \A t \in DOMAIN typeLists :
          LET typed == SelectSeq(docMatches, LAMBDA m : m.metadata.type = t)
          IN  /\ Len(typeLists[t]) = Len(typed)
              /\ \A k \in 1..Len(typed) :
                    /\ typeLists[t][k].uuid =
                          "Compendium." \o typed[k].metadata.id \o "." \o typed[k].id
                    /\ typeLists[t][k].anchor = typed[k].name
    /\ \A m \in Range(docMatches) :
          Cardinality({t \in DOMAIN typeLists :
              \E li \in Range(typeLists[t]) :
                  li.uuid = "Compendium." \o m.metadata.id \o "." \o m.id}) <= 1

\* C9 as stated: after a call whose search returned at least one match, every
\* type row's list is exactly the returned matches of that type, in the
\* returned order, and each returned match is in at most one list.
C9_ListsAreTypedMatches ==
    Len(docMatches) > 0 => ListsShowDocMatches

\* C9 amended: after a call whose search returned at least one match, with the
\* match template present, the lists are exactly the returned matches by type;
\* with the template missing the call throws and no list has ever been
\* rendered.
C9_ListsAreTypedMatchesGivenTemplate ==
    Len(docMatches) > 0 =>
        /\ matchTemplate => (filterOutcome = "rendered" /\ ListsShowDocMatches)
        /\ ~matchTemplate =>
              /\ filterOutcome = "threw"
              /\ \A t \in DOMAIN typeLists : typeLists[t] = <<>>

\* "go" returned Goblin Bog-Boss, Ogre Goon and the Item Goblin Bo-Staff, the
\* ogre ranked before the goblin: the Actor list holds both, in that order.
C9_Witness ==
    /\ query = <<"g","o">>
    /\ matchTemplate
    /\ Len(docMatches) = 3
    /\ Len(typeLists["Actor"]) = 2
    /\ typeLists["Actor"][1].uuid = "Compendium.world.bestiary.e2"
    /\ typeLists["Actor"][2].uuid = "Compendium.world.bestiary.e1"
    /\ Len(typeLists["Item"]) = 1

\* C10: at most one drag preview is attached to the document; after a
\* successful drag-start it is the one built for that drag, with the entry's
\* name as title and the entry's image when it has one.
C10_OnePreview ==
    /\ Len(bodyPreviews) <= 1
    /\ dragOutcome = "set" =>
          /\ Len(bodyPreviews) = 1
          /\ dataTransfer.dragImage = bodyPreviews
          /\ bodyPreviews[1].title = DraggedEntry.name
          /\ DraggedEntry.img # Undefined => bodyPreviews[1].src = DraggedEntry.img

\* A drag-start threw on an unresolvable document while the preview of an
\* earlier drag of Goblin Bog-Boss is still attached.
C10_Witness ==
    /\ dragOutcome = "threw"
    /\ Len(bodyPreviews) = 1
    /\ bodyPreviews[1].src = "goblin.webp"

====
